---- MODULE Spec2Model ----
(***************************************************************************)
(* Model of azure.cli.commands (src/src/azure/cli/commands/__init__.py):   *)
(*   - LongRunningOperation.__call__, the polling progress monitor;        *)
(*   - get_command_table / _get_command_table, the command table loader;   *)
(*   - CommandTable, the annotation API that builds a module's table;      *)
(*   - INSTALLED_COMMAND_MODULES, the discovery of the command modules.    *)
(* Each subsystem has its own specification (SpecMonitor, SpecLoader,      *)
(* SpecTable, SpecDiscovery); the variables of the other subsystems stay   *)
(* at their initial values.                                                *)
(***************************************************************************)
EXTENDS Integers, Sequences, FiniteSets, TLC

\* ------------------------------------------------------------------------
\* Bounds of the model
\* ------------------------------------------------------------------------
\* largest number of done() == False answers a poller gives before resolving
MaxPolls == 3
\* number of polls the model follows a poller that never resolves
MaxObserved == 5
\* largest number of commands one command module registers
MaxCmds == 2
\* largest number of modules the Module Registry lists
MaxRegistry == 2
\* largest number of annotations applied to one CommandTable
MaxAnnotations == 4
\* largest number of installed distributions
MaxDists == 2
\* largest number of pieces a distribution key is made of
MaxPieces == 3

\* ------------------------------------------------------------------------
\* State
\* ------------------------------------------------------------------------
VARIABLES
    \* --- LongRunningOperation ---
    progress_file,   \* class attribute: "stderr" (a stream) or "None" (unset)
    start_msg,       \* self.start_msg, a sequence of characters
    finish_msg,      \* self.finish_msg
    poller,          \* the poller handed to __call__: its scripted behaviour
    pc,              \* position of the invocation
    succeeded,       \* local variable succeeded
    pending,         \* how the try block was left: "none", "return", "raise"
    stream,          \* characters written to the progress stream so far
    stdout,          \* characters written to sys.stdout so far
    trace,           \* the poller calls made so far, with their answers
    finalizerRuns,   \* number of times the finally block has run
    outcome,         \* what the caller has received: "none", "value", a fault
    \* --- command table loader: the environment ---
    INSTALLED_COMMAND_MODULES,  \* the Module Registry, a sequence of module names
    importable,      \* the modules import_module can import
    tables,          \* command_table of each importable module: handler -> entry
    dictOrder,       \* the order in which this runtime's dicts enumerate keys
    \* --- command table loader: one call of get_command_table ---
    lpc,             \* position of the call
    module_name,     \* the argument of the call
    loaded,          \* local variable loaded
    command_table,   \* local variable command_table: handler -> entry
    idx,             \* position of the for loop in INSTALLED_COMMAND_MODULES
    imported,        \* the import_module attempts of this call, in order
    result,          \* the OrderedDict returned: a sequence of <<key, entry>>
    error,           \* the exception that reached the caller, or "none"
    prev,            \* the previous completed call: <<>> or <<its record>>
    \* --- CommandTable ---
    table,           \* the CommandTable: handler -> entry (a dict)
    heap,            \* the list objects created so far: reference -> elements
    log,             \* the annotations applied so far, in order
    returned,        \* what the last decorator returned, None before the first
    \* --- module discovery ---
    dists,           \* keys of the installed distributions, in pip's order
    scan             \* number of distributions the comprehension has visited

monitorVars == <<progress_file, start_msg, finish_msg, poller, pc, succeeded,
                 pending, stream, stdout, trace, finalizerRuns, outcome>>

envVars == <<INSTALLED_COMMAND_MODULES, importable, tables, dictOrder>>

loaderVars == <<envVars, lpc, module_name, loaded, command_table, idx, imported,
                result, error, prev>>

tableVars == <<table, heap, log, returned>>

discoveryVars == <<dists, scan>>

vars == <<monitorVars, loaderVars, tableVars, discoveryVars>>

\* ------------------------------------------------------------------------
\* Values shared by both subsystems
\* ------------------------------------------------------------------------
\* Python's None
None == "None"

\* an empty dict
EmptyDict == [k \in {} |-> <<>>]

\* the last element of a non-empty sequence
Last(s) == s[Len(s)]

\* ------------------------------------------------------------------------
\* LongRunningOperation
\* ------------------------------------------------------------------------
NL == "\n"
DOT == "."

\* messages a monitor can be constructed with (the empty default included)
Msgs == { <<>>, <<"m">>, <<DOT, "m">> }

\* print(text, end=end, file=f): the text followed by end
PrintText(text, end) == text \o end

\* truthiness of the class attribute progress_file
Truthy(f) == f # None

\* print(..., file=f) writes to f, and to sys.stdout when f is None
WriteTo(f, chars) ==
    IF f = None
    THEN /\ stdout' = stdout \o chars
         /\ UNCHANGED stream
    ELSE /\ stream' = stream \o chars
         /\ UNCHANGED stdout

\* the scripted pollers: done() answers False `falses` times, then answers
\* True or faults; result() returns the value or faults. A poller with
\* then = "never" answers False to every done()
Pollers ==
    [falses : 0..MaxPolls, then : {"true", "fault"}, result : {"value", "fault"}]
    \cup [falses : {0}, then : {"never"}, result : {"value"}]

\* number of done() == False answers given so far
FalseCount == Len(SelectSeq(trace, LAMBDA e : e = "done:false"))

\* the next done() answers False
StillPending ==
    IF poller.then = "never"
    THEN FalseCount < MaxObserved
    ELSE FalseCount < poller.falses

InitMonitorVars ==
    /\ progress_file \in {"stderr", None}
    /\ start_msg \in Msgs
    /\ finish_msg \in Msgs
    /\ poller \in Pollers
    /\ pc = "NotStarted"
    /\ succeeded = FALSE
    /\ pending = "none"
    /\ stream = <<>>
    /\ stdout = <<>>
    /\ trace = <<>>
    /\ finalizerRuns = 0
    /\ outcome = "none"

\* line 38-39: print(self.start_msg, file=self.progress_file); succeeded = False
Start ==
    /\ pc = "NotStarted"
    /\ WriteTo(progress_file, PrintText(start_msg, <<NL>>))
    /\ succeeded' = FALSE
    /\ pc' = "Polling"
    /\ UNCHANGED <<progress_file, start_msg, finish_msg, poller, pending, trace,
                   finalizerRuns, outcome>>
    /\ UNCHANGED <<loaderVars, tableVars, discoveryVars>>

\* a polling loop that gives up after two pending polls
PollPending_Timeout ==
    /\ pc = "Polling"
    /\ StillPending
    /\ trace' = Append(trace, "done:false")
    /\ IF Truthy(progress_file)
       THEN WriteTo(progress_file, PrintText(<<DOT>>, <<>>))
       ELSE UNCHANGED <<stream, stdout>>
    /\ pc' = IF FalseCount >= 2 THEN "Finally" ELSE pc
    /\ pending' = IF FalseCount >= 2 THEN "raise:done" ELSE pending
    /\ UNCHANGED <<progress_file, start_msg, finish_msg, poller, succeeded,
                   finalizerRuns, outcome>>
    /\ UNCHANGED <<loaderVars, tableVars, discoveryVars>>

\* a polling loop that prints two markers for one pending poll
PollPending_TwoMarkers ==
    /\ pc = "Polling"
    /\ StillPending
    /\ trace' = Append(trace, "done:false")
    /\ IF Truthy(progress_file)
       THEN WriteTo(progress_file, PrintText(<<DOT, DOT>>, <<>>))
       ELSE UNCHANGED <<stream, stdout>>
    /\ UNCHANGED <<progress_file, start_msg, finish_msg, poller, pc, succeeded,
                   pending, finalizerRuns, outcome>>
    /\ UNCHANGED <<loaderVars, tableVars, discoveryVars>>

\* line 41-45: done() answered False: one marker when a stream is set, sleep
PollPending ==
    /\ pc = "Polling"
    /\ StillPending
    /\ trace' = Append(trace, "done:false")
    /\ IF Truthy(progress_file)
       THEN WriteTo(progress_file, PrintText(<<DOT>>, <<>>))
       ELSE UNCHANGED <<stream, stdout>>
    /\ UNCHANGED <<progress_file, start_msg, finish_msg, poller, pc, succeeded,
                   pending, finalizerRuns, outcome>>
    /\ UNCHANGED <<loaderVars, tableVars, discoveryVars>>

\* line 41: done() answered True: the loop ends
PollDone ==
    /\ pc = "Polling"
    /\ FalseCount = poller.falses
    /\ poller.then = "true"
    /\ trace' = Append(trace, "done:true")
    /\ pc' = "Fetch"
    /\ UNCHANGED <<progress_file, start_msg, finish_msg, poller, succeeded,
                   pending, stream, stdout, finalizerRuns, outcome>>
    /\ UNCHANGED <<loaderVars, tableVars, discoveryVars>>

\* line 41: done() faulted: the try block is left with the fault
PollFault ==
    /\ pc = "Polling"
    /\ FalseCount = poller.falses
    /\ poller.then = "fault"
    /\ trace' = Append(trace, "done:fault")
    /\ pending' = "raise:done"
    /\ pc' = "Finally"
    /\ UNCHANGED <<progress_file, start_msg, finish_msg, poller, succeeded,
                   stream, stdout, finalizerRuns, outcome>>
    /\ UNCHANGED <<loaderVars, tableVars, discoveryVars>>

\* line 46-48: result = poller.result(); succeeded = True; return result
FetchValue ==
    /\ pc = "Fetch"
    /\ poller.result = "value"
    /\ trace' = Append(trace, "result:value")
    /\ succeeded' = TRUE
    /\ pending' = "return"
    /\ pc' = "Finally"
    /\ UNCHANGED <<progress_file, start_msg, finish_msg, poller, stream, stdout,
                   finalizerRuns, outcome>>
    /\ UNCHANGED <<loaderVars, tableVars, discoveryVars>>

\* line 46: poller.result() faulted: succeeded stays False
FetchFault ==
    /\ pc = "Fetch"
    /\ poller.result = "fault"
    /\ trace' = Append(trace, "result:fault")
    /\ pending' = "raise:result"
    /\ pc' = "Finally"
    /\ UNCHANGED <<progress_file, start_msg, finish_msg, poller, succeeded,
                   stream, stdout, finalizerRuns, outcome>>
    /\ UNCHANGED <<loaderVars, tableVars, discoveryVars>>

\* a finally block that forgets the line break closing the markers
FinalizerText_NoBreak(succ, fmsg) ==
    PrintText(IF succ THEN fmsg ELSE <<>>, <<NL>>)

\* a finally block that prints finish_msg whether or not result() returned
FinalizerText_AlwaysFinish(succ, fmsg) ==
    PrintText(<<>>, <<NL>>) \o PrintText(fmsg, <<NL>>)

\* line 52-53: what the finally block prints when a stream is set
FinalizerText(succ, fmsg) ==
    PrintText(<<>>, <<NL>>) \o PrintText(IF succ THEN fmsg ELSE <<>>, <<NL>>)

\* the cleanup written as an else clause: it is skipped when the try block
\* is left by a fault
Finalizer_SkippedOnFault ==
    /\ pc = "Finally"
    /\ IF Truthy(progress_file) /\ succeeded
       THEN WriteTo(progress_file, FinalizerText(succeeded, finish_msg))
       ELSE UNCHANGED <<stream, stdout>>
    /\ finalizerRuns' = IF succeeded THEN finalizerRuns + 1 ELSE finalizerRuns
    /\ pc' = "Exit"
    /\ UNCHANGED <<progress_file, start_msg, finish_msg, poller, succeeded,
                   pending, trace, outcome>>
    /\ UNCHANGED <<loaderVars, tableVars, discoveryVars>>

\* line 49-53: the finally block
Finalizer ==
    /\ pc = "Finally"
    /\ IF Truthy(progress_file)
       THEN WriteTo(progress_file, FinalizerText(succeeded, finish_msg))
       ELSE UNCHANGED <<stream, stdout>>
    /\ finalizerRuns' = finalizerRuns + 1
    /\ pc' = "Exit"
    /\ UNCHANGED <<progress_file, start_msg, finish_msg, poller, succeeded,
                   pending, trace, outcome>>
    /\ UNCHANGED <<loaderVars, tableVars, discoveryVars>>

\* line 48 after the finally block: the value reaches the caller
Return ==
    /\ pc = "Exit"
    /\ pending = "return"
    /\ outcome' = "value"
    /\ pc' = "Succeeded"
    /\ UNCHANGED <<progress_file, start_msg, finish_msg, poller, succeeded,
                   pending, stream, stdout, trace, finalizerRuns>>
    /\ UNCHANGED <<loaderVars, tableVars, discoveryVars>>

\* after the finally block: the fault of done() or result() reaches the caller
Propagate ==
    /\ pc = "Exit"
    /\ pending \in {"raise:done", "raise:result"}
    /\ outcome' = IF pending = "raise:result" THEN "OperationFault" ELSE "DoneFault"
    /\ pc' = "Failed"
    /\ UNCHANGED <<progress_file, start_msg, finish_msg, poller, succeeded,
                   pending, stream, stdout, trace, finalizerRuns>>
    /\ UNCHANGED <<loaderVars, tableVars, discoveryVars>>

\* the monitor at rest, for the specification of the loader
IdleMonitor ==
    /\ progress_file = "stderr"
    /\ start_msg = <<>>
    /\ finish_msg = <<>>
    /\ poller = [falses |-> 0, then |-> "true", result |-> "value"]
    /\ pc = "NotStarted"
    /\ succeeded = FALSE
    /\ pending = "none"
    /\ stream = <<>>
    /\ stdout = <<>>
    /\ trace = <<>>
    /\ finalizerRuns = 0
    /\ outcome = "none"

\* ------------------------------------------------------------------------
\* Command names and their ordering
\* ------------------------------------------------------------------------
\* the command names of the environment
Names == {"a b", "x y"}

\* the code points of a command name
CodePoints(n) ==
    CASE n = "a b" -> <<97, 32, 98>>
      [] n = "x y" -> <<120, 32, 121>>

\* Python's < on strings: lexicographic by code point, a proper prefix is less
RECURSIVE StrLess(_, _)
StrLess(a, b) ==
    IF b = <<>> THEN FALSE
    ELSE IF a = <<>> THEN TRUE
    ELSE IF Head(a) # Head(b) THEN Head(a) < Head(b)
    ELSE StrLess(Tail(a), Tail(b))

\* a comparison that orders names the wrong way round
NameLess_Reversed(a, b) == StrLess(CodePoints(b), CodePoints(a))

\* a comparison that also answers True for equal names
NameLess_OrEqual(a, b) == ~StrLess(CodePoints(b), CodePoints(a))

\* the comparison of two sort keys of line 120
NameLess(a, b) == StrLess(CodePoints(a), CodePoints(b))

\* ------------------------------------------------------------------------
\* Command modules and their tables
\* ------------------------------------------------------------------------
\* the command modules of the environment, and the handlers they register
Modules == {"A", "B"}
Handlers == {"f", "g", "h"}

\* the entry CommandTable.command(name) creates for a handler of module m;
\* description carries the module, which tells the entries of two modules apart
Entry(n, m) == [name |-> n, description |-> m, arguments |-> <<>>]

\* the entry of a handler that CommandTable.description annotated and
\* CommandTable.command did not: it has no name
Unnamed(m) == [description |-> m, arguments |-> <<>>]

\* the entries module m can hold
EntriesOf(m) == {Entry(n, m) : n \in Names} \cup {Unnamed(m)}

\* the command tables module m can export: handler -> entry
TablesOf(m) ==
    UNION { [S -> EntriesOf(m)] :
            S \in {T \in SUBSET Handlers : Cardinality(T) <= MaxCmds} }

\* sequences without repetition over the set S, of length at most n
RECURSIVE SeqsOver(_, _)
SeqsOver(S, n) ==
    IF n = 0 THEN { <<>> }
    ELSE LET shorter == SeqsOver(S, n - 1)
         IN  shorter \cup
             { Append(q, x) : q \in {r \in shorter : Len(r) = n - 1},
                              x \in S }

NoRepeat(q) == \A i, j \in 1..Len(q) : i # j => q[i] # q[j]

Registries == {q \in SeqsOver(Modules, MaxRegistry) : NoRepeat(q)}

\* the orders in which a dict of this runtime may enumerate its keys
DictOrders == {q \in SeqsOver(Handlers, Cardinality(Handlers)) :
                 NoRepeat(q) /\ Len(q) = Cardinality(Handlers)}

\* ------------------------------------------------------------------------
\* dict, sorted and OrderedDict
\* ------------------------------------------------------------------------
\* a merge that keeps the entry already present (setdefault for each key)
Update_FirstWins(d, t) ==
    [k \in DOMAIN d \cup DOMAIN t |-> IF k \in DOMAIN d THEN d[k] ELSE t[k]]

\* d.update(t): the entries of t are added to d, replacing those of equal key
Update(d, t) ==
    [k \in DOMAIN d \cup DOMAIN t |-> IF k \in DOMAIN t THEN t[k] ELSE d[k]]

\* d.items(): the (key, value) pairs of d in the runtime's enumeration order
Items(d) ==
    LET keys == SelectSeq(dictOrder, LAMBDA k : k \in DOMAIN d)
    IN  [i \in 1..Len(keys) |-> <<keys[i], d[keys[i]]>>]

\* the sort key of line 120: item[1]['name']
SortKey(item) == item[2].name

\* x placed into the sorted sequence s after every element that is not greater
RECURSIVE InsertSorted(_, _)
InsertSorted(x, s) ==
    IF s = <<>> THEN <<x>>
    ELSE IF NameLess(SortKey(x), SortKey(Head(s))) THEN <<x>> \o s
    ELSE <<Head(s)>> \o InsertSorted(x, Tail(s))

\* sorted(items, key=...): ascending by key, equal keys keep their order
RECURSIVE Sorted(_)
Sorted(items) ==
    IF items = <<>> THEN <<>>
    ELSE InsertSorted(Last(items), Sorted(SubSeq(items, 1, Len(items) - 1)))

\* OrderedDict(pairs): one item per key at the place of the key's first pair,
\* holding the value of the key's last pair
RECURSIVE OrderedDictOf(_)
OrderedDictOf(pairs) ==
    IF pairs = <<>> THEN <<>>
    ELSE LET init == OrderedDictOf(SubSeq(pairs, 1, Len(pairs) - 1))
             p == Last(pairs)
         IN  IF \E i \in 1..Len(init) : init[i][1] = p[1]
             THEN [i \in 1..Len(init) |-> IF init[i][1] = p[1] THEN p ELSE init[i]]
             ELSE Append(init, p)

\* a table re-keyed by the name of each entry
OrderedCommands_ByName(d) ==
    LET items == Sorted(Items(d))
    IN  OrderedDictOf([i \in 1..Len(items) |-> <<items[i][2].name, items[i][2]>>])

\* line 120 applied to an OrderedDict, whose items() are in its own order
SortStep(od) == OrderedDictOf(Sorted(od))

\* line 120: OrderedDict(sorted(command_table.items(), key=...))
OrderedCommands(d) == OrderedDictOf(Sorted(Items(d)))

\* ------------------------------------------------------------------------
\* get_command_table
\* ------------------------------------------------------------------------
\* the arguments get_command_table is called with
Hints == Modules \cup {None}

InitLoaderVars ==
    /\ INSTALLED_COMMAND_MODULES \in Registries
    /\ importable \in SUBSET Modules
    /\ tables \in [Modules -> UNION {TablesOf(m) : m \in Modules}]
    /\ \A m \in Modules :
          tables[m] \in (IF m \in importable THEN TablesOf(m) ELSE {EmptyDict})
    /\ dictOrder \in DictOrders
    /\ lpc = "idle"
    /\ module_name = None
    /\ loaded = FALSE
    /\ command_table = EmptyDict
    /\ idx = 0
    /\ imported = <<>>
    /\ result = <<>>
    /\ error = "none"
    /\ prev = <<>>

\* the loader at rest, for the specification of the monitor
IdleLoader ==
    /\ INSTALLED_COMMAND_MODULES = <<>>
    /\ importable = {}
    /\ tables = [m \in Modules |-> EmptyDict]
    /\ dictOrder = <<"f", "g", "h">>
    /\ lpc = "idle"
    /\ module_name = None
    /\ loaded = FALSE
    /\ command_table = EmptyDict
    /\ idx = 0
    /\ imported = <<>>
    /\ result = <<>>
    /\ error = "none"
    /\ prev = <<>>

\* the record of the call that has just completed
CallRecord == [hint |-> module_name, error |-> error, result |-> result,
               imported |-> imported]

\* line 96-98: _get_command_table(mod) succeeds exactly for importable modules
ImportOk(mod) == mod \in importable

\* a call that lets the ImportError of the named module reach the caller
Call_Raises(hint) ==
    /\ lpc \in {"idle", "done"}
    /\ prev' = IF lpc = "done" THEN <<CallRecord>> ELSE prev
    /\ module_name' = hint
    /\ result' = <<>>
    /\ idx' = 0
    /\ command_table' = IF hint # None /\ ImportOk(hint) THEN tables[hint] ELSE EmptyDict
    /\ loaded' = (hint # None /\ ImportOk(hint))
    /\ imported' = IF hint # None THEN <<hint>> ELSE <<>>
    /\ error' = IF hint # None /\ ~ImportOk(hint) THEN "ImportError" ELSE "none"
    /\ lpc' = IF hint # None /\ ~ImportOk(hint) THEN "done" ELSE "loaded?"
    /\ UNCHANGED envVars
    /\ UNCHANGED <<monitorVars, tableVars, discoveryVars>>

\* a call that forgets loaded = True after importing the named module
Call_NeverLoaded(hint) ==
    /\ lpc \in {"idle", "done"}
    /\ prev' = IF lpc = "done" THEN <<CallRecord>> ELSE prev
    /\ module_name' = hint
    /\ result' = <<>>
    /\ error' = "none"
    /\ idx' = 0
    /\ command_table' = IF hint # None /\ ImportOk(hint) THEN tables[hint] ELSE EmptyDict
    /\ loaded' = FALSE
    /\ imported' = IF hint # None THEN <<hint>> ELSE <<>>
    /\ lpc' = "loaded?"
    /\ UNCHANGED envVars
    /\ UNCHANGED <<monitorVars, tableVars, discoveryVars>>

\* line 106-113: a call starts; the named module is tried, ImportError is passed
Call(hint) ==
    /\ lpc \in {"idle", "done"}
    /\ prev' = IF lpc = "done" THEN <<CallRecord>> ELSE prev
    /\ module_name' = hint
    /\ result' = <<>>
    /\ error' = "none"
    /\ idx' = 0
    /\ IF hint # None
       THEN /\ imported' = <<hint>>
            /\ IF ImportOk(hint)
               THEN /\ command_table' = tables[hint]
                    /\ loaded' = TRUE
               ELSE /\ command_table' = EmptyDict
                    /\ loaded' = FALSE
       ELSE /\ imported' = <<>>
            /\ command_table' = EmptyDict
            /\ loaded' = FALSE
    /\ lpc' = "loaded?"
    /\ UNCHANGED envVars
    /\ UNCHANGED <<monitorVars, tableVars, discoveryVars>>

\* line 115-116: if not loaded: command_table = {}
FullLoadBegin ==
    /\ lpc = "loaded?"
    /\ ~loaded
    /\ command_table' = EmptyDict
    /\ idx' = 1
    /\ lpc' = "loop"
    /\ UNCHANGED <<envVars, module_name, loaded, imported, result, error, prev>>
    /\ UNCHANGED <<monitorVars, tableVars, discoveryVars>>

\* line 117-118: command_table.update(_get_command_table(mod))
FullLoadImport ==
    /\ lpc = "loop"
    /\ idx <= Len(INSTALLED_COMMAND_MODULES)
    /\ ImportOk(INSTALLED_COMMAND_MODULES[idx])
    /\ imported' = Append(imported, INSTALLED_COMMAND_MODULES[idx])
    /\ command_table' = Update(command_table, tables[INSTALLED_COMMAND_MODULES[idx]])
    /\ idx' = idx + 1
    /\ UNCHANGED <<envVars, lpc, module_name, loaded, result, error, prev>>
    /\ UNCHANGED <<monitorVars, tableVars, discoveryVars>>

\* a full load that skips a module it cannot import
FullLoadImportError_Skipped ==
    /\ lpc = "loop"
    /\ idx <= Len(INSTALLED_COMMAND_MODULES)
    /\ ~ImportOk(INSTALLED_COMMAND_MODULES[idx])
    /\ imported' = Append(imported, INSTALLED_COMMAND_MODULES[idx])
    /\ idx' = idx + 1
    /\ UNCHANGED <<envVars, lpc, module_name, loaded, command_table, result,
                   error, prev>>
    /\ UNCHANGED <<monitorVars, tableVars, discoveryVars>>

\* line 118: _get_command_table(mod) raises ImportError, which nothing catches
FullLoadImportError ==
    /\ lpc = "loop"
    /\ idx <= Len(INSTALLED_COMMAND_MODULES)
    /\ ~ImportOk(INSTALLED_COMMAND_MODULES[idx])
    /\ imported' = Append(imported, INSTALLED_COMMAND_MODULES[idx])
    /\ error' = "ImportError"
    /\ lpc' = "done"
    /\ UNCHANGED <<envVars, module_name, loaded, command_table, idx, result, prev>>
    /\ UNCHANGED <<monitorVars, tableVars, discoveryVars>>

\* the table to return is complete: line 120 is reached
AtSort ==
    \/ lpc = "loaded?" /\ loaded
    \/ lpc = "loop" /\ idx > Len(INSTALLED_COMMAND_MODULES)

\* item[1]['name'] is defined for every item
AllNamed(d) == \A k \in DOMAIN d : "name" \in DOMAIN d[k]

\* line 120: an entry without name makes the sort key raise KeyError
SortKeyError ==
    /\ AtSort
    /\ ~AllNamed(command_table)
    /\ error' = "KeyError"
    /\ lpc' = "done"
    /\ UNCHANGED <<envVars, module_name, loaded, command_table, idx, imported,
                   result, prev>>
    /\ UNCHANGED <<monitorVars, tableVars, discoveryVars>>

\* line 120-121: the table is sorted by name and returned
SortAndReturn ==
    /\ AtSort
    /\ AllNamed(command_table)
    /\ result' = OrderedCommands(command_table)
    /\ lpc' = "done"
    /\ UNCHANGED <<envVars, module_name, loaded, command_table, idx, imported,
                   error, prev>>
    /\ UNCHANGED <<monitorVars, tableVars, discoveryVars>>

\* ------------------------------------------------------------------------
\* CommandTable
\* ------------------------------------------------------------------------
\* the handlers a module annotates
TableHandlers == {"f", "g"}

\* keyword arguments of command(): those of ArgumentParser.add_parser, which
\* has a description and a help keyword
CommandOpts == { EmptyDict, [help |-> "short help"],
                 [description |-> "parser description"] }

\* the calls command(name, **opts) of the model
CommandCalls ==
    {c \in [name : Names, opts : CommandOpts] : c.name = "x y" \/ c.opts = EmptyDict}

\* the calls description(text) and help(help_file) of the model
DescriptionTexts == {"long description"}
HelpFiles == {"help.txt"}

\* the calls option(name, **opts) of the model
OptionCalls == { [name |-> "--a -a", opts |-> EmptyDict],
                 [name |-> "--b", opts |-> [required |-> TRUE]] }

\* d[k] = v
SetItem(d, k, v) == [x \in DOMAIN d \cup {k} |-> IF x = k THEN v ELSE d[x]]

\* a factory that hands the same list object to every entry
FreshRef_Shared(h) == 1

\* the list object a new [] evaluates to: one that does not exist yet
FreshRef(h) == Cardinality(DOMAIN h) + 1

\* a table whose missing keys get an empty dict
Touch_NoDefault(t, h, func) ==
    IF func \in DOMAIN t THEN <<t, h>> ELSE <<SetItem(t, func, EmptyDict), h>>

\* a table that makes a new entry on every access
Touch_Reset(t, h, func) ==
    <<SetItem(t, func, [arguments |-> FreshRef(h)]), SetItem(h, FreshRef(h), <<>>)>>

\* line 66-67: self[func] of the defaultdict: a missing key gets the entry
\* {'arguments': []} with a list of its own; the table and heap afterwards
Touch(t, h, func) ==
    IF func \in DOMAIN t
    THEN <<t, h>>
    ELSE <<SetItem(t, func, [arguments |-> FreshRef(h)]),
           SetItem(h, FreshRef(h), <<>>)>>

\* a command() that builds the entry anew instead of updating it
ApplyCommand_Replaces(t, h, func, name, opts) ==
    LET th == Touch(t, h, func)
        entry == Update(SetItem([arguments |-> th[1][func].arguments], "name", name), opts)
    IN  <<SetItem(th[1], func, entry), th[2]>>

\* line 71-72: self[func]['name'] = name; self[func].update(kwargs)
ApplyCommand(t, h, func, name, opts) ==
    LET th == Touch(t, h, func)
        entry == Update(SetItem(th[1][func], "name", name), opts)
    IN  <<SetItem(th[1], func, entry), th[2]>>

\* line 78: self[func]['description'] = description
ApplyDescription(t, h, func, text) ==
    LET th == Touch(t, h, func)
    IN  <<SetItem(th[1], func, SetItem(th[1][func], "description", text)), th[2]>>

\* line 84: self[func]['help_file'] = help_file
ApplyHelp(t, h, func, help_file) ==
    LET th == Touch(t, h, func)
    IN  <<SetItem(th[1], func, SetItem(th[1][func], "help_file", help_file)), th[2]>>

\* an option that replaces an earlier one of the same flag name
ApplyOption_Dedup(t, h, func, name, opts) ==
    LET th == Touch(t, h, func)
        opt == SetItem(opts, "name", name)
        ref == th[1][func].arguments
        kept == SelectSeq(th[2][ref], LAMBDA o : o.name # name)
    IN  <<th[1], SetItem(th[2], ref, Append(kept, opt))>>

\* line 90-92: opt = dict(kwargs); opt['name'] = name;
\* self[func]['arguments'].append(opt)
ApplyOption(t, h, func, name, opts) ==
    LET th == Touch(t, h, func)
        opt == SetItem(opts, "name", name)
        ref == th[1][func].arguments
    IN  <<th[1], SetItem(th[2], ref, Append(th[2][ref], opt))>>

\* the record of one applied annotation
Annotation(op, func, arg, opts) == [op |-> op, func |-> func, arg |-> arg, opts |-> opts]

\* the table and heap after annotation a
Apply(t, h, a) ==
    CASE a.op = "command" -> ApplyCommand(t, h, a.func, a.arg, a.opts)
      [] a.op = "description" -> ApplyDescription(t, h, a.func, a.arg)
      [] a.op = "help" -> ApplyHelp(t, h, a.func, a.arg)
      [] a.op = "option" -> ApplyOption(t, h, a.func, a.arg, a.opts)

\* the table and heap after the annotations as, applied in order to a new
\* CommandTable
RECURSIVE ApplyAll(_)
ApplyAll(as) ==
    IF as = <<>>
    THEN <<EmptyDict, EmptyDict>>
    ELSE LET before == ApplyAll(SubSeq(as, 1, Len(as) - 1))
         IN  Apply(before[1], before[2], as[Len(as)])

\* line 69-74: @command(name, **kwargs) applied to func, which is returned
Command(func, c) ==
    /\ Len(log) < MaxAnnotations
    /\ table' = ApplyCommand(table, heap, func, c.name, c.opts)[1]
    /\ heap' = ApplyCommand(table, heap, func, c.name, c.opts)[2]
    /\ log' = Append(log, Annotation("command", func, c.name, c.opts))
    /\ returned' = func
    /\ UNCHANGED <<monitorVars, loaderVars, discoveryVars>>

\* line 76-80: @description(text) applied to func, which is returned
Description(func, text) ==
    /\ Len(log) < MaxAnnotations
    /\ table' = ApplyDescription(table, heap, func, text)[1]
    /\ heap' = ApplyDescription(table, heap, func, text)[2]
    /\ log' = Append(log, Annotation("description", func, text, EmptyDict))
    /\ returned' = func
    /\ UNCHANGED <<monitorVars, loaderVars, discoveryVars>>

\* line 82-86: @help(help_file) applied to func, which is returned
Help(func, help_file) ==
    /\ Len(log) < MaxAnnotations
    /\ table' = ApplyHelp(table, heap, func, help_file)[1]
    /\ heap' = ApplyHelp(table, heap, func, help_file)[2]
    /\ log' = Append(log, Annotation("help", func, help_file, EmptyDict))
    /\ returned' = func
    /\ UNCHANGED <<monitorVars, loaderVars, discoveryVars>>

\* line 88-94: @option(name, **kwargs) applied to func, which is returned
Option(func, o) ==
    /\ Len(log) < MaxAnnotations
    /\ table' = ApplyOption(table, heap, func, o.name, o.opts)[1]
    /\ heap' = ApplyOption(table, heap, func, o.name, o.opts)[2]
    /\ log' = Append(log, Annotation("option", func, o.name, o.opts))
    /\ returned' = func
    /\ UNCHANGED <<monitorVars, loaderVars, discoveryVars>>

\* the CommandTable before any annotation
IdleTable ==
    /\ table = EmptyDict
    /\ heap = EmptyDict
    /\ log = <<>>
    /\ returned = None

\* ------------------------------------------------------------------------
\* Module discovery
\* ------------------------------------------------------------------------
\* no distribution visited, for the specifications of the other subsystems
IdleDiscovery ==
    /\ dists = <<>>
    /\ scan = 0

\* line 9, 11: the convention prefix 'azure-cli-', as its characters
Prefix == <<"a", "z", "u", "r", "e", "-", "c", "l", "i", "-">>

\* what the distribution keys of the environment are made of
Pieces == {Prefix, <<"v", "m">>}

\* the strings made of n pieces
RECURSIVE KeysOf(_)
KeysOf(n) == IF n = 0 THEN {<<>>} ELSE {p \o k : p \in Pieces, k \in KeysOf(n - 1)}

\* the keys a distribution can have
Keys == UNION {KeysOf(n) : n \in 1..MaxPieces}

\* line 10: what get_installed_distributions() can enumerate: distributions
\* with distinct keys, by their keys
DistLists == {d \in SeqsOver(Keys, MaxDists) : NoRepeat(d)}

\* line 11: key.startswith(prefix)
StartsWith(key, prefix) ==
    /\ Len(key) >= Len(prefix)
    /\ SubSeq(key, 1, Len(prefix)) = prefix

\* line 9: key.replace(old, ''): the key without any of the occurrences of
\* old found from left to right
RECURSIVE Replace(_, _)
Replace(key, old) ==
    IF Len(key) < Len(old) THEN key
    ELSE IF SubSeq(key, 1, Len(old)) = old
         THEN Replace(SubSeq(key, Len(old) + 1, Len(key)), old)
         ELSE <<Head(key)>> \o Replace(Tail(key), old)

\* the variables of the loader that discovery does not assign
afterDiscoveryVars == <<importable, tables, dictOrder, lpc, module_name, loaded,
                        command_table, idx, imported, result, error, prev>>

\* line 9-11: the comprehension takes a distribution whose key starts with
\* the prefix
ScanMatch ==
    /\ scan < Len(dists)
    /\ StartsWith(dists[scan + 1], Prefix)
    /\ INSTALLED_COMMAND_MODULES' =
           Append(INSTALLED_COMMAND_MODULES, Replace(dists[scan + 1], Prefix))
    /\ scan' = scan + 1
    /\ UNCHANGED <<dists, afterDiscoveryVars, monitorVars, tableVars>>

\* line 11: the comprehension passes over a distribution with another key
ScanSkip ==
    /\ scan < Len(dists)
    /\ ~StartsWith(dists[scan + 1], Prefix)
    /\ scan' = scan + 1
    /\ UNCHANGED <<dists, loaderVars, monitorVars, tableVars>>

\* ------------------------------------------------------------------------
\* Specifications
\* ------------------------------------------------------------------------
InitMonitor == InitMonitorVars /\ IdleLoader /\ IdleTable /\ IdleDiscovery

NextMonitor ==
    \/ Start
    \/ PollPending
    \/ PollDone
    \/ PollFault
    \/ FetchValue
    \/ FetchFault
    \/ Finalizer
    \/ Return
    \/ Propagate

SpecMonitor == InitMonitor /\ [][NextMonitor]_vars

\* the invocation runs on one thread that always takes its next step
SpecMonitorFair == SpecMonitor /\ WF_vars(NextMonitor)

InitLoader == InitLoaderVars /\ IdleMonitor /\ IdleTable /\ IdleDiscovery

NextLoader ==
    \/ \E hint \in Hints : Call(hint)
    \/ FullLoadBegin
    \/ FullLoadImport
    \/ FullLoadImportError
    \/ SortKeyError
    \/ SortAndReturn

SpecLoader == InitLoader /\ [][NextLoader]_vars

InitTable == IdleTable /\ IdleMonitor /\ IdleLoader /\ IdleDiscovery

NextTable ==
    \/ \E func \in TableHandlers, c \in CommandCalls : Command(func, c)
    \/ \E func \in TableHandlers, text \in DescriptionTexts : Description(func, text)
    \/ \E func \in TableHandlers, help_file \in HelpFiles : Help(func, help_file)
    \/ \E func \in TableHandlers, o \in OptionCalls : Option(func, o)

SpecTable == InitTable /\ [][NextTable]_vars

InitDiscovery ==
    /\ dists \in DistLists
    /\ scan = 0
    /\ IdleLoader /\ IdleMonitor /\ IdleTable

NextDiscovery ==
    \/ ScanMatch
    \/ ScanSkip

SpecDiscovery == InitDiscovery /\ [][NextDiscovery]_vars

\* ------------------------------------------------------------------------
\* Properties of LongRunningOperation.__call__ (checked under SpecMonitor)
\* ------------------------------------------------------------------------
\* n progress markers
Dots(n) == [i \in 1..n |-> DOT]

\* the invocation has ended: control is back with the caller
Ended == pc \in {"Succeeded", "Failed"}

\* the poller calls of a poller that answers False n times and then True
PollsThenTrue(n) == [i \in 1..n |-> "done:false"] \o <<"done:true">>

\* C1: for a poller whose done() answers False exactly N times and then True
\* and whose result() returns, one invocation with a progress stream set
\* writes to that stream exactly start_msg, a line break, N markers, a line
\* break, finish_msg, a line break, writes nowhere else, and hands the
\* poller's result to the caller.
C1_SuccessOutput ==
    (Ended /\ Truthy(progress_file)
        /\ poller.then = "true" /\ poller.result = "value") =>
        /\ pc = "Succeeded"
        /\ trace = PollsThenTrue(poller.falses) \o <<"result:value">>
        /\ stream = start_msg \o <<NL>> \o Dots(poller.falses) \o <<NL>>
                      \o finish_msg \o <<NL>>
        /\ stdout = <<>>
        /\ outcome = "value"

\* C1 witness: a successful invocation after two pending polls, with a
\* finish message, has ended.
C1_Witness ==
    /\ pc = "Succeeded"
    /\ Truthy(progress_file)
    /\ FalseCount = 2
    /\ finish_msg # <<>>
    /\ start_msg # <<>>

\* C2: for a poller whose done() answers False exactly N times and then True
\* and whose result() faults, one invocation with a progress stream set writes
\* exactly start_msg, a line break, N markers, a line break and an empty line
\* (never finish_msg); all of it is written before the fault leaves the
\* invocation, and the caller receives the fault, never a value.
C2_FaultOutput ==
    LET faultOutput == start_msg \o <<NL>> \o Dots(poller.falses) \o <<NL, NL>>
    IN  /\ (Ended /\ Truthy(progress_file)
              /\ poller.then = "true" /\ poller.result = "fault") =>
              /\ pc = "Failed"
              /\ trace = PollsThenTrue(poller.falses) \o <<"result:fault">>
              /\ stream = faultOutput
              /\ stdout = <<>>
              /\ outcome = "OperationFault"
        /\ (pending = "raise:result" /\ pc = "Exit" /\ Truthy(progress_file)) =>
              /\ stream = faultOutput
              /\ outcome = "none"
        /\ (outcome = "OperationFault" /\ Truthy(progress_file)) =>
              stream = faultOutput
        /\ pending = "raise:result" => outcome \in {"none", "OperationFault"}

\* C2 witness: an invocation whose result() faulted after two pending polls,
\* constructed with a finish message, has ended.
C2_Witness ==
    /\ pc = "Failed"
    /\ pending = "raise:result"
    /\ Truthy(progress_file)
    /\ FalseCount = 2
    /\ finish_msg # <<>>

\* C3: on every exit path (return, fault of result(), fault of done()) the
\* finally block runs exactly once, after the last progress marker and before
\* the caller gets control; with a progress stream set it emits a line break
\* and the final line, so the stream ends with a line break and not with a
\* marker when the invocation ends.
C3_FinalizerOnEveryExit ==
    LET finalLine == IF succeeded THEN finish_msg ELSE <<>>
    IN  /\ finalizerRuns = (IF pc \in {"Exit", "Succeeded", "Failed"} THEN 1 ELSE 0)
        /\ outcome # "none" => Ended
        /\ (finalizerRuns = 1 /\ Truthy(progress_file)) =>
              /\ stream = start_msg \o <<NL>> \o Dots(FalseCount) \o <<NL>>
                            \o finalLine \o <<NL>>
              /\ Last(stream) = NL
        /\ (Ended /\ ~Truthy(progress_file)) =>
              /\ stream = <<>>
              /\ Last(stdout) = NL

\* C3 witness: an invocation left by a fault of done() after a progress
\* marker has ended.
C3_Witness ==
    /\ pc = "Failed"
    /\ pending = "raise:done"
    /\ Truthy(progress_file)
    /\ FalseCount >= 1
    /\ finalizerRuns = 1

\* ------------------------------------------------------------------------
\* Properties of get_command_table (checked under SpecLoader)
\* ------------------------------------------------------------------------
\* the call has ended with a table returned
Returned == lpc = "done" /\ error = "none"

\* the call has ended and went through the full load
FullLoadEnded == lpc = "done" /\ ~loaded

\* names and keys of the returned table, in iteration order
ResultNames == [i \in 1..Len(result) |-> result[i][2].name]
ResultKeys == {result[i][1] : i \in 1..Len(result)}

\* the modules the Module Registry lists, and the first that cannot be imported
RegistrySet == {INSTALLED_COMMAND_MODULES[i] : i \in 1..Len(INSTALLED_COMMAND_MODULES)}
Broken == {i \in 1..Len(INSTALLED_COMMAND_MODULES) : ~ImportOk(INSTALLED_COMMAND_MODULES[i])}
FirstBroken == INSTALLED_COMMAND_MODULES[CHOOSE i \in Broken : \A j \in Broken : i <= j]

\* the module latest in registry order that registers handler k
LastModuleWith(k) ==
    LET at == {i \in 1..Len(INSTALLED_COMMAND_MODULES) :
                 k \in DOMAIN tables[INSTALLED_COMMAND_MODULES[i]]}
    IN  INSTALLED_COMMAND_MODULES[CHOOSE i \in at : \A j \in at : j <= i]

\* the names a module table registers
NamesIn(t) == {t[k].name : k \in DOMAIN t}

\* modules A = {"x y"} and B = {"x y", "a b"}, registered under three
\* different handlers, in registry order [A, B]
ScenarioAB ==
    /\ INSTALLED_COMMAND_MODULES = <<"A", "B">>
    /\ importable = Modules
    /\ AllNamed(tables["A"]) /\ AllNamed(tables["B"])
    /\ Cardinality(DOMAIN tables["A"]) = 1
    /\ Cardinality(DOMAIN tables["B"]) = 2
    /\ DOMAIN tables["A"] \cap DOMAIN tables["B"] = {}
    /\ NamesIn(tables["A"]) = {"x y"}
    /\ NamesIn(tables["B"]) = {"x y", "a b"}

\* the returned table iterates in ascending order of name
AscendingByName ==
    \A i, j \in 1..Len(result) :
        i < j => ~StrLess(CodePoints(result[j][2].name), CodePoints(result[i][2].name))

C6_SortedByName == Returned => AscendingByName

\* C6 witness: a table of three entries with both names has been returned,
\* and the dict it was sorted from enumerated an "x y" entry first.
C6_Witness ==
    /\ Returned
    /\ Len(result) = 3
    /\ {ResultNames[i] : i \in 1..3} = Names
    /\ Items(command_table)[1][2].name = "x y"

\* the previous call named a module that cannot be imported and this call is
\* without argument, or the other way round
FallbackPair ==
    /\ lpc = "done"
    /\ prev # <<>>
    /\ \/ prev[1].hint # None /\ ~ImportOk(prev[1].hint) /\ module_name = None
       \/ module_name # None /\ ~ImportOk(module_name) /\ prev[1].hint = None

\* the imports of a call after the attempt at the named module
FullLoadImports(hint, imports) == IF hint = None THEN imports ELSE Tail(imports)

\* C7: a call naming a module that cannot be imported ends as the call
\* without argument does: the same exception or the same entries in the same
\* order, after importing the same modules of the registry, all of them when a
\* table is returned.
C7_FallbackSameAsNone ==
    FallbackPair =>
        /\ prev[1].error = error
        /\ prev[1].result = result
        /\ FullLoadImports(prev[1].hint, prev[1].imported)
             = FullLoadImports(module_name, imported)
        /\ error = "none" =>
              FullLoadImports(module_name, imported) = INSTALLED_COMMAND_MODULES

\* C7 witness: a call without argument has returned a table of two entries
\* after a call that named a module that cannot be imported.
C7_Witness ==
    /\ FallbackPair
    /\ module_name = None
    /\ error = "none"
    /\ Len(result) >= 2

\* the call names a module that cannot be imported
HintBroken == lpc # "idle" /\ module_name # None /\ ~ImportOk(module_name)

\* C8 as stated: the import failure of the named module never reaches the
\* caller, also when the registry lists the named module.
C8_NeverSurfaced ==
    (HintBroken /\ lpc = "done") =>
        ~(error = "ImportError" /\ Last(imported) = module_name)

\* C8 amended: the ImportError of the attempt at the named module is caught:
\* the call goes on to the full load. The full load catches nothing, so the
\* caller gets an ImportError exactly when the registry lists a module that
\* cannot be imported, the named module included: then the failure of the
\* named module reaches the caller from the full load.
C8_SurfacedOnlyByFullLoad ==
    HintBroken =>
        /\ ~loaded
        /\ imported[1] = module_name
        /\ lpc = "loaded?" => error = "none" /\ imported = <<module_name>>
        /\ lpc = "done" =>
              /\ error = "ImportError" <=> Broken # {}
              /\ error = "ImportError" =>
                    /\ Len(imported) >= 2
                    /\ Last(imported) = FirstBroken
              /\ module_name \in RegistrySet => error = "ImportError"

\* C8 witness: the named module cannot be imported, the registry lists it
\* after a module that imports, and the call has ended.
C8_Witness ==
    /\ HintBroken
    /\ lpc = "done"
    /\ Len(INSTALLED_COMMAND_MODULES) = 2
    /\ INSTALLED_COMMAND_MODULES[2] = module_name
    /\ ImportOk(INSTALLED_COMMAND_MODULES[1])

\* the call names a module that imports
HintLoaded == lpc # "idle" /\ module_name # None /\ ImportOk(module_name)

\* C9: a call naming a module that imports imports that module and no other,
\* and the table it returns holds exactly the entries of that module, under
\* their handlers, in ascending order of name; it returns a table unless an
\* entry of that module has no name.
C9_SingleModuleBypassesMerge ==
    HintLoaded =>
        /\ loaded
        /\ imported = <<module_name>>
        /\ lpc = "done" =>
              /\ error = (IF AllNamed(tables[module_name]) THEN "none" ELSE "KeyError")
              /\ error = "none" =>
                    /\ ResultKeys = DOMAIN tables[module_name]
                    /\ Len(result) = Cardinality(DOMAIN tables[module_name])
                    /\ \A i \in 1..Len(result) :
                          result[i][2] = tables[module_name][result[i][1]]
                    /\ AscendingByName

\* C9 witness: a call naming a module of two commands has returned, and the
\* registry lists another module that imports and registers a further handler.
C9_Witness ==
    /\ HintLoaded
    /\ Returned
    /\ Len(result) = 2
    /\ \E m \in RegistrySet \ {module_name} :
          /\ ImportOk(m)
          /\ DOMAIN tables[m] \ DOMAIN tables[module_name] # {}

\* C10: a full load of a registry that lists a module that cannot be imported
\* ends with that ImportError at the caller and returns no table, whatever
\* was merged before the failing module.
C10_FullLoadFailFast ==
    /\ (FullLoadEnded /\ Broken # {}) =>
          /\ error = "ImportError"
          /\ result = <<>>
          /\ Last(imported) = FirstBroken
    /\ (FullLoadEnded /\ error = "none") => Broken = {}

\* C10 witness: a full load has failed at the second module of the registry
\* after merging the commands of the first.
C10_Witness ==
    /\ FullLoadEnded
    /\ error = "ImportError"
    /\ idx = 2
    /\ DOMAIN command_table # {}

\* C14: the sort-by-name step applied to a table it has returned gives the
\* same items in the same order, entries of equal name included, however
\* often it is applied.
C14_ResortIsNoOp ==
    Returned =>
        /\ SortStep(result) = result
        /\ SortStep(SortStep(result)) = result

\* C14 witness: a returned table of three entries holds two entries of equal
\* name, sorted from a dict that enumerated an "x y" entry first.
C14_Witness ==
    /\ Returned
    /\ Len(result) = 3
    /\ result[2][2].name = result[3][2].name
    /\ result[1][2].name # result[2][2].name
    /\ Items(command_table)[1][2].name = "x y"

\* ------------------------------------------------------------------------
\* Further properties of LongRunningOperation.__call__
\* ------------------------------------------------------------------------
\* the poller calls after the done() == False answers
TraceTail == SubSeq(trace, FalseCount + 1, Len(trace))

\* C17: an invocation goes NotStarted -> Polling -> Succeeded or Failed and
\* keeps the done-then-result protocol: start_msg is written once, before the
\* first done(); with a stream set there is exactly one marker per done()
\* that answered False; result() is called at most once, only after done()
\* answered True, and done() is not called after it; the invocation ends
\* Succeeded, with finish_msg written and the value returned, exactly when
\* result() returned.
C17_DoneThenResult ==
    /\ pc \in {"NotStarted", "Polling", "Fetch", "Finally", "Exit",
               "Succeeded", "Failed"}
    /\ trace = [i \in 1..FalseCount |-> "done:false"] \o TraceTail
    /\ pc = "NotStarted" => trace = <<>> /\ stream = <<>> /\ stdout = <<>>
    /\ pc = "Polling" => TraceTail = <<>>
    /\ pc = "Fetch" => TraceTail = <<"done:true">>
    /\ pc \in {"Finally", "Exit", "Succeeded", "Failed"} =>
          TraceTail \in { <<"done:fault">>, <<"done:true", "result:value">>,
                          <<"done:true", "result:fault">> }
    /\ (pc # "NotStarted" /\ Truthy(progress_file)) =>
          /\ Len(stream) >= Len(start_msg) + 1 + FalseCount
          /\ SubSeq(stream, 1, Len(start_msg) + 1 + FalseCount)
               = start_msg \o <<NL>> \o Dots(FalseCount)
          /\ finalizerRuns = 0 => Len(stream) = Len(start_msg) + 1 + FalseCount
    /\ succeeded <=> (trace # <<>> /\ Last(trace) = "result:value")
    /\ Ended =>
          /\ pc = "Succeeded" <=> Last(trace) = "result:value"
          /\ pc = "Succeeded" <=> outcome = "value"
          /\ Truthy(progress_file) =>
                stream = start_msg \o <<NL>> \o Dots(FalseCount) \o <<NL>>
                           \o (IF pc = "Succeeded" THEN finish_msg ELSE <<>>)
                           \o <<NL>>

\* C17 witness: an invocation has ended Succeeded after three pending polls.
C17_Witness ==
    /\ pc = "Succeeded"
    /\ Truthy(progress_file)
    /\ FalseCount = 3
    /\ Last(trace) = "result:value"

\* C18: the loop is left only when done() answers True or a poller call
\* faults. With a poller that does so the invocation eventually ends
\* Succeeded or Failed; with a poller that answers False for ever it never
\* ends: it stays in the loop, and with a stream set every poll adds exactly
\* one marker.
C18_NoTimeout ==
    /\ (poller.then \in {"true", "fault"}) => <>Ended
    /\ [](poller.then = "never" =>
            /\ pc \in {"NotStarted", "Polling"}
            /\ outcome = "none"
            /\ finalizerRuns = 0
            /\ (pc = "Polling" /\ Truthy(progress_file)) =>
                  stream = start_msg \o <<NL>> \o Dots(FalseCount))
    /\ [][(pc = "Polling" /\ pc' # "Polling") =>
             \/ trace' = Append(trace, "done:true")
             \/ trace' = Append(trace, "done:fault")]_vars
    /\ [][(pc = "Polling" /\ pc' = "Polling" /\ Truthy(progress_file)) =>
             stream' = stream \o <<DOT>>]_vars

\* C18 witness: a poller that never resolves has been polled more often than
\* any resolving poller of the model, and the invocation is still polling.
C18_Witness ==
    /\ poller.then = "never"
    /\ pc = "Polling"
    /\ FalseCount > MaxPolls
    /\ Truthy(progress_file)

\* C19 as stated: with progress_file unset an invocation writes nothing at
\* all, to the progress stream or to any other stream, and ends as the
\* poller decides.
C19_SilentWhenUnset ==
    ~Truthy(progress_file) =>
        /\ stream = <<>>
        /\ stdout = <<>>
        /\ Ended => (pc = "Succeeded" <=> Last(trace) = "result:value")

\* ---------------------------------------------------------------------
\* CommandTable claims (SpecTable)

\* the annotations applied to func, in application order
LogOf(func) == SelectSeq(log, LAMBDA a : a.func = func)

\* the fields an annotation writes into the entry
FieldWrites(a) ==
    CASE a.op = "command" ->
           [k \in DOMAIN a.opts \cup {"name"} |-> IF k = "name" THEN a.arg ELSE a.opts[k]]
      [] a.op = "description" -> [description |-> a.arg]
      [] a.op = "help" -> [help_file |-> a.arg]
      [] a.op = "option" -> EmptyDict

\* the fields of an entry other than its arguments list
Fields(entry) == [k \in DOMAIN entry \ {"arguments"} |-> entry[k]]

\* for each field written by an annotation of func, the value written last
ExpectedFields(func) ==
    LET lf == LogOf(func)
        writers(k) == {i \in DOMAIN lf : k \in DOMAIN FieldWrites(lf[i])}
        keys == UNION {DOMAIN FieldWrites(lf[i]) : i \in DOMAIN lf}
        last(k) == CHOOSE i \in writers(k) : \A j \in writers(k) : j <= i
    IN  [k \in keys |-> FieldWrites(lf[last(k)])[k]]

\* the Argument Specs {name, **opts} of the option calls on func, in call order
ExpectedArguments(func) ==
    LET os == SelectSeq(LogOf(func), LAMBDA a : a.op = "option")
    IN  [i \in 1..Len(os) |->
            [k \in DOMAIN os[i].opts \cup {"name"} |->
                IF k = "name" THEN os[i].arg ELSE os[i].opts[k]]]

\* the handlers annotated so far
Annotated == {log[i].func : i \in DOMAIN log}

\* C12: the table is keyed by handler: it has exactly one entry per annotated
\* handler, the entry of a handler holds what all annotations of that handler
\* wrote (two handlers given the same name keep an entry each), and every
\* annotation returns the handler it was given.
C12_KeyedByHandler ==
    /\ DOMAIN table = Annotated
    /\ \A func \in DOMAIN table : Fields(table[func]) = ExpectedFields(func)
    /\ returned = IF log = <<>> THEN None ELSE Last(log).func

\* two handlers registered under one name, one of them annotated twice
C12_Witness ==
    /\ DOMAIN table = {"f", "g"}
    /\ "name" \in DOMAIN table["f"] /\ "name" \in DOMAIN table["g"]
    /\ table["f"]["name"] = table["g"]["name"]
    /\ "description" \in DOMAIN table["f"]
    /\ "description" \notin DOMAIN table["g"]
    /\ returned = "g"

\* the Argument Specs the option calls of the model can append
ArgumentSpecs == {[k \in DOMAIN o.opts \cup {"name"} |->
                      IF k = "name" THEN o.name ELSE o.opts[k]] : o \in OptionCalls}

\* func has been given an option
HasOption(func) == \E i \in DOMAIN log : log[i].func = func /\ log[i].op = "option"

\* C15: every key of the table has an entry whose arguments field is present
\* and is a list, the empty list as long as no option was declared for the
\* handler, whatever the handler's first annotation was.
C15_ArgumentsAlwaysPresent ==
    \A func \in DOMAIN table :
        /\ "arguments" \in DOMAIN table[func]
        /\ table[func]["arguments"] \in DOMAIN heap
        /\ heap[table[func]["arguments"]] \in Seq(ArgumentSpecs)
        /\ ~HasOption(func) => heap[table[func]["arguments"]] = <<>>

\* a handler first referenced by description or help, with no option yet, next
\* to a handler that has options
C15_Witness ==
    /\ DOMAIN table = {"f", "g"}
    /\ LogOf("g")[1].op \in {"description", "help"}
    /\ ~HasOption("g")
    /\ heap[table["g"]["arguments"]] = <<>>
    /\ HasOption("f")

\* C16: the arguments list of a handler is the sequence of Argument Specs
\* {name, **opts} of the option calls applied to it, one element per call in
\* call order, however the calls are interleaved with the other annotations;
\* a repeated flag name is a further element.
C16_ArgumentsInCallOrder ==
    \A func \in DOMAIN table :
        heap[table[func]["arguments"]] = ExpectedArguments(func)

\* the same flag declared twice for a handler, with a command in between and
\* a different flag declared after
C16_Witness ==
    \E func \in DOMAIN table :
        LET lf == LogOf(func)
        IN  /\ Len(lf) = 4
            /\ lf[1].op = "option" /\ lf[2].op = "command"
            /\ lf[3].op = "option" /\ lf[4].op = "option"
            /\ lf[1].arg = lf[3].arg /\ lf[4].arg # lf[3].arg
            /\ Len(heap[table[func]["arguments"]]) = 3

\* an entry as a reader of the table sees it: its fields, the arguments field
\* being the elements of its list
View(t, h, func) ==
    [k \in DOMAIN t[func] |-> IF k = "arguments" THEN h[t[func][k]] ELSE t[func][k]]

\* C20: an annotation applied to a handler leaves the entry of every other
\* handler, its arguments list included, as it was, and no two entries have
\* the same arguments list.
C20_OnlyOwnEntryChanges ==
    /\ [](\A f1 \in DOMAIN table : \A f2 \in DOMAIN table :
            f1 # f2 => table[f1]["arguments"] # table[f2]["arguments"])
    /\ [][log' # log =>
            \A other \in DOMAIN table :
                other # Last(log').func =>
                    /\ other \in DOMAIN table'
                    /\ View(table', heap', other) = View(table, heap, other)]_vars

\* two handlers with options of their own, the second created after the first
\* had its option
C20_Witness ==
    /\ DOMAIN table = {"f", "g"}
    /\ Len(log) = 4
    /\ log[1].func = "f" /\ log[1].op = "option"
    /\ log[2].func = "g" /\ log[2].op = "option"
    /\ log[3].func = "f" /\ log[3].op = "option"
    /\ log[4].func = "g" /\ log[4].op = "command"
    /\ Len(heap[table["f"]["arguments"]]) = 2
    /\ Len(heap[table["g"]["arguments"]]) = 1

\* the positions of the annotations of kind op among those of func
Of(func, op) == {i \in DOMAIN LogOf(func) : LogOf(func)[i].op = op}

\* func was given exactly one command, one description and one help
OneOfEach(func) ==
    /\ Cardinality(Of(func, "command")) = 1
    /\ Cardinality(Of(func, "description")) = 1
    /\ Cardinality(Of(func, "help")) = 1

\* the one annotation of kind op given to func
The(func, op) == LogOf(func)[CHOOSE i \in Of(func, op) : TRUE]

\* the orders in which the annotations as can be applied with the option
\* calls in their call order
Orders(as) ==
    LET n == Len(as)
        perms == {p \in [1..n -> 1..n] : \A i, j \in 1..n : i # j => p[i] # p[j]}
        options(q) == SelectSeq(q, LAMBDA a : a.op = "option")
    IN  {q \in {[i \in 1..n |-> as[p[i]]] : p \in perms} : options(q) = options(as)}

\* the entry of func has its name, description, help_file and opts fields
AllSet(func) ==
    /\ {"name", "description", "help_file"} \cup DOMAIN The(func, "command").opts
            \subseteq DOMAIN table[func]
    /\ table[func]["name"] = The(func, "command").arg
    /\ table[func]["help_file"] = The(func, "help").arg

\* every order of the annotations of func gives the entry the fields it has
SameInEveryOrder(func) ==
    \A q \in Orders(LogOf(func)) :
        LET th == ApplyAll(q)
        IN  /\ Fields(th[1][func]) = Fields(table[func])
            /\ View(th[1], th[2], func) = View(table, heap, func)

\* C11 as stated: for a handler given one command, one description, one help
\* and any options, the entry has all fields set and every order of applying
\* command, description and help gives the same field values.
C11_AnyOrderSameFields ==
    \A func \in DOMAIN table :
        OneOfEach(func) => AllSet(func) /\ SameInEveryOrder(func)

\* C11: for a handler given one command, one description, one help and any
\* options, the entry has all fields set; every order of applying command,
\* description and help gives the same field values when opts has no
\* description, and when it has one the description field is that of the
\* later of command and description.
C11_AnyOrderUnlessOptsCollide ==
    \A func \in DOMAIN table :
        OneOfEach(func) =>
            LET c == CHOOSE i \in Of(func, "command") : TRUE
                d == CHOOSE i \in Of(func, "description") : TRUE
                opts == The(func, "command").opts
            IN  /\ AllSet(func)
                /\ \A k \in DOMAIN opts \ {"description"} : table[func][k] = opts[k]
                /\ "description" \notin DOMAIN opts =>
                       /\ SameInEveryOrder(func)
                       /\ table[func]["description"] = The(func, "description").arg
                /\ "description" \in DOMAIN opts =>
                       table[func]["description"] =
                           IF c > d THEN opts["description"]
                           ELSE The(func, "description").arg

\* a handler given an option, a description, a help and last a command whose
\* opts add a field
C11_Witness ==
    /\ DOMAIN table = {"f"}
    /\ OneOfEach("f")
    /\ HasOption("f")
    /\ Last(log).op = "command"
    /\ log[1].op = "description"
    /\ DOMAIN Last(log).opts = {"help"}
    /\ DOMAIN table["f"] = {"arguments", "name", "description", "help_file", "help"}

\* ---------------------------------------------------------------------
\* Module Discovery claims (SpecDiscovery)

\* the distributions enumerated so far whose key starts with the prefix
Matching == SelectSeq(SubSeq(dists, 1, scan), LAMBDA key : StartsWith(key, Prefix))

\* the key without its first Len(Prefix) characters
Suffix(key) == SubSeq(key, Len(Prefix) + 1, Len(key))

\* C13 as stated: discovery yields, for exactly the keys that start with the
\* prefix and in enumeration order, the key with the leading prefix stripped,
\* so that prefix + module name is the key.
C13_YieldsSuffix ==
    /\ Len(INSTALLED_COMMAND_MODULES) = Len(Matching)
    /\ \A i \in DOMAIN Matching :
          /\ INSTALLED_COMMAND_MODULES[i] = Suffix(Matching[i])
          /\ Prefix \o INSTALLED_COMMAND_MODULES[i] = Matching[i]
====
